---- MODULE Spec2Model ----
(***************************************************************************)
(* The email agent's shared context (email_agent/main.py): the outreach    *)
(* contact list, the medical summaries, the two report histories, the      *)
(* four context tools that read and write them, and main()'s run of four   *)
(* phases around them.                                                     *)
(*                                                                         *)
(* Text is modelled structurally: a message is the sequence of the         *)
(* segments of its f-string (literal pieces and interpolated values, all   *)
(* strings), and a report is the sequence of its lines, as obtained by     *)
(* splitting the joined text at "\n"; each line is a sequence of segments. *)
(* A datetime is an integer number of ticks, TicksPerDay ticks to the day. *)
(* The bullet and the en dash of the source's strings are written "*" and  *)
(* "--": the module is ASCII.                                              *)
(***************************************************************************)
EXTENDS Integers, Sequences, FiniteSets, TLC

VARIABLES
    outreach_list,      \* EmailAgentContext.outreach_list: Seq of OutreachContact
    medical_summaries,  \* EmailAgentContext.medical_summaries: Seq of MedicalNewsSummary
    weekly_report,      \* EmailAgentContext.weekly_report: Seq of report texts
    bi_weekly_report,   \* EmailAgentContext.bi_weekly_report: Seq of report texts
    now,                \* the reading datetime.now() gives
    call,               \* the last tool call: the tool and its arguments
    ret,                \* the value the last tool call returned
    pc,                 \* main()'s position
    new_emails,         \* process_yahoo_emails: what read_yahoo_emails returned
    idx,                \* the position of the for loop main() is in
    today,              \* manage_supplier_outreach: today, read before its second loop
    router_runs,        \* how many times each phase has called Runner.run
    log,                \* the task banners printed so far
    calls               \* how many tool calls were made

ctx == <<outreach_list, medical_summaries, weekly_report, bi_weekly_report>>
run == <<pc, new_emails, idx, today, router_runs, log>>
vars == <<outreach_list, medical_summaries, weekly_report, bi_weekly_report,
          now, call, ret, pc, new_emails, idx, today, router_runs, log, calls>>

----------------------------------------------------------------------------
(* Bounds and input sets *)

\* ticks to the day: the resolution of the clock
TicksPerDay == 2
\* timedelta(days=14)
WindowDays == 14
WindowTicks == WindowDays * TicksPerDay
\* the readings of the clock: the start, exactly one window later, and a
\* tick past that
Times == {0, WindowTicks, WindowTicks + 1}

\* how many tool calls a behaviour makes
MaxCalls == 4
\* the same, where all four context tools are called in any order
MaxMixedCalls == 3
\* the same, in a run of main()
MaxRunCalls == 2
\* how many unseen messages the mailbox holds
MaxEmails == 2

Names == {"Innovate MedTech", "Global Pharma"}
Emails == {"contact@innovatemed.com", "Contact@innovatemed.com", "inquiries@globalpharma.com"}
Statuses == {"initial_sent", "follow_up_1_sent", "follow_up_2_sent", "replied", "unresponsive"}
StatusInputs == {"initial_sent", "unresponsive"}
Subjects == {"Therapy X", "Therapy Y"}
Summaries == {"Shows promise."}
Trends == {"Gene Therapy", "gene therapy", "Gene Therapy "}

----------------------------------------------------------------------------
(* Helpers on text *)

\* s.replace('_', ' ').title() on the five status literals
Humanize(status) ==
    CASE status = "initial_sent" -> "Initial Sent"
      [] status = "follow_up_1_sent" -> "Follow Up 1 Sent"
      [] status = "follow_up_2_sent" -> "Follow Up 2 Sent"
      [] status = "replied" -> "Replied"
      [] status = "unresponsive" -> "Unresponsive"

\* datetime.now().date(), printed
DateStr(t) == "day " \o ToString(t \div TicksPerDay)

\* (a - b).days: whole days, rounded down
Days(a, b) == (a - b) \div TicksPerDay

----------------------------------------------------------------------------
(* update_outreach_contact_in_context *)

RECURSIVE FindContactFrom(_, _, _)
FindContactFrom(list, email, i) ==
    IF i > Len(list) THEN 0
    ELSE IF list[i].email = email THEN i
    ELSE FindContactFrom(list, email, i + 1)

\* a slip: the loop gives up after the first contact
FindContactFirstOnly(list, email) ==
    IF Len(list) >= 1 /\ list[1].email = email THEN 1 ELSE 0

\* the for loop: the index of the first contact with that email, 0 if none
FindContact(list, email) == FindContactFrom(list, email, 1)

OutreachContact(name, email, status, t) ==
    [name |-> name, email |-> email, status |-> status, last_contact_date |-> t]

\* a slip: the update also overwrites the stored name
UpsertedListRenames(list, name, email, status, t) ==
    LET i == FindContact(list, email) IN
    IF i # 0
    THEN [list EXCEPT ![i].name = name, ![i].status = status,
                      ![i].last_contact_date = t]
    ELSE Append(list, OutreachContact(name, email, status, t))

\* the list after the call
UpsertedList(list, name, email, status, t) ==
    LET i == FindContact(list, email) IN
    IF i # 0
    THEN [list EXCEPT ![i].status = status, ![i].last_contact_date = t]
    ELSE Append(list, OutreachContact(name, email, status, t))

\* a slip: the update path answers with the message of the add path
UpsertMessageAlwaysAdded(list, name, email, status) ==
    <<"Successfully added new contact ", name, " to outreach list.">>

\* the string the call returns
UpsertMessage(list, name, email, status) ==
    IF FindContact(list, email) # 0
    THEN <<"Successfully updated contact ", name, " with status ", status, ".">>
    ELSE <<"Successfully added new contact ", name, " to outreach list.">>

update_outreach_contact_in_context(name, email, status) ==
    /\ outreach_list' = UpsertedList(outreach_list, name, email, status, now)
    /\ ret' = UpsertMessage(outreach_list, name, email, status)
    /\ UNCHANGED <<medical_summaries, weekly_report, bi_weekly_report, now>>

----------------------------------------------------------------------------
(* add_medical_summary_to_context *)

MedicalNewsSummary(subject, summary, trend, t) ==
    [source_email_subject |-> subject, summary |-> summary, trend |-> trend, date |-> t]

add_medical_summary_to_context(subject, summary, trend) ==
    /\ medical_summaries' =
           Append(medical_summaries, MedicalNewsSummary(subject, summary, trend, now))
    /\ ret' = <<"Successfully added medical summary to context.">>
    /\ UNCHANGED <<outreach_list, weekly_report, bi_weekly_report, now>>

----------------------------------------------------------------------------
(* generate_weekly_supplier_report *)

RECURSIVE Repeat(_, _)
\* s * n
Repeat(s, n) == IF n <= 0 THEN "" ELSE s \o Repeat(s, n - 1)

RECURSIVE TextLen(_)
\* len() of a line: the lengths of its segments added up
TextLen(line) == IF line = <<>> THEN 0 ELSE Len(Head(line)) + TextLen(Tail(line))

\* "-" * len(header)
Divider(header) == <<Repeat("-", TextLen(header))>>

RECURSIVE DictFind(_, _, _)
\* the position of key k in a dict kept as the sequence of its entries, in
\* insertion order; 0 if absent
DictFind(d, k, i) ==
    IF i > Len(d) THEN 0
    ELSE IF d[i].key = k THEN i
    ELSE DictFind(d, k, i + 1)

\* a slip: status_counts[k] = 1
CountUpResets(d, k) ==
    LET i == DictFind(d, k, 1) IN
    IF i # 0 THEN [d EXCEPT ![i].value = 1]
    ELSE Append(d, [key |-> k, value |-> 1])

\* status_counts[k] = status_counts.get(k, 0) + 1
CountUp(d, k) ==
    LET i == DictFind(d, k, 1) IN
    IF i # 0 THEN [d EXCEPT ![i].value = @ + 1]
    ELSE Append(d, [key |-> k, value |-> 1])

RECURSIVE StatusCountsFrom(_, _, _)
StatusCountsFrom(list, i, d) ==
    IF i > Len(list) THEN d
    ELSE StatusCountsFrom(list, i + 1, CountUp(d, list[i].status))

\* status_counts after the loop over the contacts
StatusCounts(list) == StatusCountsFrom(list, 1, <<>>)

ContactLine(c, t) ==
    <<"* ", c.name, " (", c.email, ") -- ", Humanize(c.status), " -- ",
      ToString(Days(t, c.last_contact_date)), " days since last contact">>

SummaryLine(e) == <<"  - ", Humanize(e.key), ": ", ToString(e.value)>>

IsUnresponsive(c) == c.status = "unresponsive"

\* [c for c in outreach_list if c.status == "unresponsive"]
Unresponsive(list) == SelectSeq(list, IsUnresponsive)

UnresponsiveLine(c) == <<"  * ", c.name, " (", c.email, ")">>

\* a slip: the heading is written whether or not anyone is unresponsive
UnresponsiveSectionAlways(list) ==
    LET u == Unresponsive(list) IN
    <<<<>>, <<"Unresponsive Suppliers:">>>>
    \o [i \in 1..Len(u) |-> UnresponsiveLine(u[i])]

UnresponsiveSection(list) ==
    LET u == Unresponsive(list) IN
    IF u = <<>> THEN <<>>
    ELSE <<<<>>, <<"Unresponsive Suppliers:">>>>
         \o [i \in 1..Len(u) |-> UnresponsiveLine(u[i])]

NoActivityLine == <<"No supplier outreach activity this week.">>

\* the report on an empty contact list
WeeklyReportIdle(t) ==
    << <<"Weekly Supplier Outreach Report (", DateStr(t), "):">>, <<>>,
       NoActivityLine >>

\* the report on a contact list that is not empty
WeeklyReportActive(list, t) ==
    LET header == <<"Weekly Supplier Outreach Report (", DateStr(t), ")">>
        counts == StatusCounts(list)
    IN  <<header, Divider(header)>>
        \o [i \in 1..Len(list) |-> ContactLine(list[i], t)]
        \o <<<<>>, <<"Summary:">>>>
        \o [i \in 1..Len(counts) |-> SummaryLine(counts[i])]
        \o UnresponsiveSection(list)

\* a slip: "this week" is taken at its word, and contacts last written to a
\* week or more ago count as no activity
WeeklyReportTextThisWeek(list, t) ==
    IF \A i \in 1..Len(list) : Days(t, list[i].last_contact_date) >= 7
    THEN WeeklyReportIdle(t)
    ELSE WeeklyReportActive(list, t)

WeeklyReportText(list, t) ==
    IF list = <<>> THEN WeeklyReportIdle(t) ELSE WeeklyReportActive(list, t)

\* a slip: the report marks the contacts not written to for 14 days or more
\* as unresponsive in the context, not only in its text
generate_weekly_marks_unresponsive ==
    LET report == WeeklyReportText(outreach_list, now) IN
    /\ outreach_list' =
           [i \in 1..Len(outreach_list) |->
               IF Days(now, outreach_list[i].last_contact_date) >= WindowDays
               THEN [outreach_list[i] EXCEPT !.status = "unresponsive"]
               ELSE outreach_list[i]]
    /\ weekly_report' = Append(weekly_report, report)
    /\ ret' = report
    /\ UNCHANGED <<medical_summaries, bi_weekly_report, now>>

\* a slip: the report is persisted in the else branch only
generate_weekly_persists_activity_only ==
    LET report == WeeklyReportText(outreach_list, now) IN
    /\ weekly_report' = IF outreach_list = <<>> THEN weekly_report
                         ELSE Append(weekly_report, report)
    /\ ret' = report
    /\ UNCHANGED <<outreach_list, medical_summaries, bi_weekly_report, now>>

generate_weekly_supplier_report ==
    LET report == WeeklyReportText(outreach_list, now) IN
    /\ weekly_report' = Append(weekly_report, report)
    /\ ret' = report
    /\ UNCHANGED <<outreach_list, medical_summaries, bi_weekly_report, now>>

----------------------------------------------------------------------------
(* generate_biweekly_medical_trend_report *)

\* cutoff = datetime.now() - timedelta(days=14)
Cutoff(t) == t - WindowTicks

\* a slip: s.date > cutoff
RecentSummariesStrict(ms, t) ==
    LET InWindow(s) == s.date > Cutoff(t) IN SelectSeq(ms, InWindow)

\* [s for s in medical_summaries if s.date >= cutoff]
RecentSummaries(ms, t) ==
    LET InWindow(s) == s.date >= Cutoff(t) IN SelectSeq(ms, InWindow)

\* a slip: the trend is lower-cased before it is looked up
CaseFolded(trend) == IF trend = "Gene Therapy" THEN "gene therapy" ELSE trend

GroupAddCaseFolded(d, s) ==
    LET hits == {i \in 1..Len(d) : CaseFolded(d[i].key) = CaseFolded(s.trend)} IN
    IF hits # {}
    THEN [d EXCEPT ![CHOOSE i \in hits : TRUE].value = Append(@, s)]
    ELSE Append(d, [key |-> s.trend, value |-> <<s>>])

\* trend_groups.setdefault(summary.trend, []).append(summary)
GroupAdd(d, s) ==
    LET i == DictFind(d, s.trend, 1) IN
    IF i # 0 THEN [d EXCEPT ![i].value = Append(@, s)]
    ELSE Append(d, [key |-> s.trend, value |-> <<s>>])

RECURSIVE TrendGroupsFrom(_, _, _)
TrendGroupsFrom(recent, i, d) ==
    IF i > Len(recent) THEN d
    ELSE TrendGroupsFrom(recent, i + 1, GroupAdd(d, recent[i]))

\* trend_groups after the loop over the recent summaries
TrendGroups(recent) == TrendGroupsFrom(recent, 1, <<>>)

TrendHeaderLine(g) ==
    <<"Trend: ", g.key, " -- ", ToString(Len(g.value)), " article(s)">>

ItemLine(s) == <<"  * ", s.source_email_subject, ": ", s.summary>>

\* the lines one trend group adds
GroupLines(g) ==
    <<<<>>, TrendHeaderLine(g)>> \o [i \in 1..Len(g.value) |-> ItemLine(g.value[i])]

RECURSIVE GroupsLinesFrom(_, _)
GroupsLinesFrom(groups, i) ==
    IF i > Len(groups) THEN <<>>
    ELSE GroupLines(groups[i]) \o GroupsLinesFrom(groups, i + 1)

NoSummariesLine == <<"No medical news summaries recorded in the last 14 days.">>

BiweeklyReportText(ms, t) ==
    LET recent == RecentSummaries(ms, t) IN
    IF recent = <<>>
    THEN << <<"Bi-Weekly Medical Trends Report (", DateStr(t), "):">>, <<>>,
            NoSummariesLine >>
    ELSE LET header == <<"Bi-Weekly Medical Trends Report (", DateStr(t), ")">>
         IN  <<header, Divider(header)>> \o GroupsLinesFrom(TrendGroups(recent), 1)

\* a slip: the filtered list is written back to the context
generate_biweekly_prunes_summaries ==
    LET report == BiweeklyReportText(medical_summaries, now) IN
    /\ medical_summaries' = RecentSummaries(medical_summaries, now)
    /\ bi_weekly_report' = Append(bi_weekly_report, report)
    /\ ret' = report
    /\ UNCHANGED <<outreach_list, weekly_report, now>>

generate_biweekly_medical_trend_report ==
    LET report == BiweeklyReportText(medical_summaries, now) IN
    /\ bi_weekly_report' = Append(bi_weekly_report, report)
    /\ ret' = report
    /\ UNCHANGED <<outreach_list, medical_summaries, weekly_report, now>>

----------------------------------------------------------------------------
(* The tools called directly, as the tests do, in any order *)

Init ==
    /\ outreach_list = <<>>
    /\ medical_summaries = <<>>
    /\ weekly_report = <<>>
    /\ bi_weekly_report = <<>>
    /\ now = 0
    /\ call = [tool |-> "none"]
    /\ ret = <<>>
    /\ pc = "main"
    /\ new_emails = [type |-> "list", value |-> <<>>]
    /\ idx = 0
    /\ today = 0
    /\ router_runs = [yahoo |-> 0, koc |-> 0, outreach |-> 0, reports |-> 0]
    /\ log = <<>>
    /\ calls = 0

\* time passes between two calls
Tick ==
    /\ \E t \in Times : t > now /\ now' = t
    /\ UNCHANGED <<ctx, call, ret, run, calls>>

\* one more tool call, within the budget
Count(limit) == calls < limit /\ calls' = calls + 1

ToolUpsert ==
    \E name \in Names, email \in Emails, status \in StatusInputs :
        /\ call' = [tool |-> "update_outreach_contact_in_context",
                    name |-> name, email |-> email, status |-> status]
        /\ update_outreach_contact_in_context(name, email, status)

ToolAddSummary ==
    \E subject \in Subjects, summary \in Summaries, trend \in Trends :
        /\ call' = [tool |-> "add_medical_summary_to_context",
                    source_email_subject |-> subject, summary |-> summary,
                    trend |-> trend]
        /\ add_medical_summary_to_context(subject, summary, trend)

ToolWeekly ==
    /\ call' = [tool |-> "generate_weekly_supplier_report"]
    /\ generate_weekly_supplier_report

ToolBiweekly ==
    /\ call' = [tool |-> "generate_biweekly_medical_trend_report"]
    /\ generate_biweekly_medical_trend_report

CallUpsert(limit) == Count(limit) /\ ToolUpsert /\ UNCHANGED run
CallAddSummary(limit) == Count(limit) /\ ToolAddSummary /\ UNCHANGED run
CallWeekly(limit) == Count(limit) /\ ToolWeekly /\ UNCHANGED run
CallBiweekly(limit) == Count(limit) /\ ToolBiweekly /\ UNCHANGED run

\* all four context tools
Next ==
    \/ Tick
    \/ CallUpsert(MaxMixedCalls)
    \/ CallAddSummary(MaxMixedCalls)
    \/ CallWeekly(MaxMixedCalls)
    \/ CallBiweekly(MaxMixedCalls)

Spec == Init /\ [][Next]_vars

\* the two tools of the outreach list
NextOutreach == Tick \/ CallUpsert(MaxCalls) \/ CallWeekly(MaxCalls)

SpecOutreach == Init /\ [][NextOutreach]_vars

\* the two tools of the medical summaries
NextMedical == Tick \/ CallAddSummary(MaxCalls) \/ CallBiweekly(MaxCalls)

SpecMedical == Init /\ [][NextMedical]_vars

----------------------------------------------------------------------------
(* main(): the four phases, the router (Runner.run) calling the tools its  *)
(* agent has. A Runner.run is a stay in one of the "..._run" positions, in *)
(* which the agent's context tools may be called, zero or more times; the  *)
(* tools that only print and return a fixed text leave the state as it is  *)
(* and are left out, but for the tender agent's one tool.                  *)

\* a str and a list are told apart by isinstance
Str(segments) == [type |-> "str", value |-> segments]
List(items) == [type |-> "list", value |-> items]

Message == [from |-> "news@journal.org", subject |-> "Therapy X", body |-> "..."]

\* the contents the mailbox may have: up to MaxEmails unseen messages
Inboxes == {[i \in 1..n |-> Message] : n \in 0..MaxEmails}

read_yahoo_emails(credentials, imap_ok, inbox) ==
    IF ~credentials
    THEN Str(<<"Error: YAHOO_EMAIL and YAHOO_PASSWORD environment variables are not set.">>)
    ELSE IF ~imap_ok
    THEN Str(<<"Error connecting to Yahoo IMAP or fetching emails: ", "e">>)
    ELSE List(inbox)

new_suppliers ==
    << [name |-> "Innovate MedTech", email |-> "contact@innovatemed.com"],
       [name |-> "Global Pharma", email |-> "inquiries@globalpharma.com"] >>

\* Runner.run is entered by the phase
Run(phase) == router_runs' = [router_runs EXCEPT ![phase] = @ + 1]

Printed(lines) == log' = log \o lines

\* a slip: the isinstance check is missing
AfterReadUnchecked(result) ==
    IF result.value = <<>> THEN "koc" ELSE "yahoo_loop"

\* where process_yahoo_emails goes with what it read
AfterRead(result) ==
    IF result.type = "str" THEN "koc"
    ELSE IF result.value = <<>> THEN "koc"
    ELSE "yahoo_loop"

\* process_yahoo_emails, up to its for loop
ProcessYahooEmails ==
    /\ pc = "main"
    /\ \E credentials \in BOOLEAN, imap_ok \in BOOLEAN, inbox \in Inboxes :
           LET result == read_yahoo_emails(credentials, imap_ok, inbox) IN
           /\ new_emails' = result
           /\ pc' = AfterRead(result)
           /\ Printed(<<"--- Task: Processing Yahoo Emails ---",
                      IF result.type = "str" THEN "Could not fetch emails"
                      ELSE IF result.value = <<>> THEN "No new emails to process."
                      ELSE "Fetched new email(s).">>)
    /\ idx' = 1
    /\ UNCHANGED <<ctx, now, call, ret, today, router_runs, calls>>

\* the head of the for loop over new_emails: the next message goes to the
\* triage agent, or the phase is over
YahooLoop ==
    /\ pc = "yahoo_loop"
    /\ IF idx <= Len(new_emails.value)
       THEN /\ Run("yahoo")
            /\ pc' = "yahoo_run"
            /\ UNCHANGED log
       ELSE /\ Printed(<<"--- Task: Yahoo Emails Complete ---">>)
            /\ pc' = "koc"
            /\ UNCHANGED router_runs
    /\ UNCHANGED <<ctx, now, call, ret, new_emails, idx, today, calls>>

\* the triage agent's run returns
YahooRunEnd ==
    /\ pc = "yahoo_run"
    /\ idx' = idx + 1
    /\ pc' = "yahoo_loop"
    /\ UNCHANGED <<ctx, now, call, ret, new_emails, today, router_runs, log, calls>>

\* process_koc_tenders, up to its Runner.run
ProcessKocTenders ==
    /\ pc = "koc"
    /\ Printed(<<"--- Task: Processing KOC Tenders ---">>)
    /\ Run("koc")
    /\ pc' = "koc_run"
    /\ UNCHANGED <<ctx, now, call, ret, new_emails, idx, today, calls>>

\* read_gmail_and_download_attachments, the tender agent's tool
ToolReadGmail ==
    /\ pc = "koc_run"
    /\ Count(MaxRunCalls)
    /\ call' = [tool |-> "read_gmail_and_download_attachments",
                subject_keyword |-> "KOC tenders"]
    /\ ret' = <<"Successfully downloaded 3 attachments from KOC tender emails.">>
    /\ UNCHANGED <<ctx, now, run>>

KocRunEnd ==
    /\ pc = "koc_run"
    /\ Printed(<<"--- Task: KOC Tenders Complete ---">>)
    /\ pc' = "outreach"
    /\ UNCHANGED <<ctx, now, call, ret, new_emails, idx, today, router_runs, calls>>

\* manage_supplier_outreach, up to its first loop
ManageSupplierOutreach ==
    /\ pc = "outreach"
    /\ Printed(<<"--- Task: Managing Supplier Outreach ---">>)
    /\ idx' = 1
    /\ pc' = "outreach_new"
    /\ UNCHANGED <<ctx, now, call, ret, new_emails, today, router_runs, calls>>

\* the head of the loop over new_suppliers: a supplier not in the list goes
\* to the outreach agent; after the last one today is read
OutreachNewLoop ==
    /\ pc = "outreach_new"
    /\ IF idx <= Len(new_suppliers)
       THEN IF \A i \in 1..Len(outreach_list) :
                   outreach_list[i].email # new_suppliers[idx].email
            THEN /\ Run("outreach")
                 /\ pc' = "outreach_new_run"
                 /\ UNCHANGED <<idx, today>>
            ELSE /\ idx' = idx + 1
                 /\ UNCHANGED <<pc, today, router_runs>>
       ELSE /\ today' = now
            /\ idx' = 1
            /\ pc' = "followup"
            /\ UNCHANGED router_runs
    /\ UNCHANGED <<ctx, now, call, ret, new_emails, log, calls>>

OutreachNewRunEnd ==
    /\ pc = "outreach_new_run"
    /\ idx' = idx + 1
    /\ pc' = "outreach_new"
    /\ UNCHANGED <<ctx, now, call, ret, new_emails, today, router_runs, log, calls>>

\* the head of the loop over outreach_list: a contact at initial_sent for two
\* days or more goes to the outreach agent
FollowUpLoop ==
    /\ pc = "followup"
    /\ IF idx <= Len(outreach_list)
       THEN IF /\ outreach_list[idx].status = "initial_sent"
               /\ Days(today, outreach_list[idx].last_contact_date) >= 2
            THEN /\ Run("outreach")
                 /\ pc' = "followup_run"
                 /\ UNCHANGED <<idx, log>>
            ELSE /\ idx' = idx + 1
                 /\ UNCHANGED <<pc, router_runs, log>>
       ELSE /\ Printed(<<"--- Task: Supplier Outreach Complete ---">>)
            /\ pc' = "reports"
            /\ UNCHANGED <<idx, router_runs>>
    /\ UNCHANGED <<ctx, now, call, ret, new_emails, today, calls>>

FollowUpRunEnd ==
    /\ pc = "followup_run"
    /\ idx' = idx + 1
    /\ pc' = "followup"
    /\ UNCHANGED <<ctx, now, call, ret, new_emails, today, router_runs, log, calls>>

\* generate_reports, up to its Runner.run
GenerateReports ==
    /\ pc = "reports"
    /\ Printed(<<"--- Task: Generating Reports ---">>)
    /\ Run("reports")
    /\ pc' = "reports_run"
    /\ UNCHANGED <<ctx, now, call, ret, new_emails, idx, today, calls>>

\* the reporting agent's run returns, and main() after it
ReportsRunEnd ==
    /\ pc = "reports_run"
    /\ Printed(<<"--- Task: Reports Complete ---",
               "--- Full Simulation Cycle Complete ---">>)
    /\ pc' = "done"
    /\ UNCHANGED <<ctx, now, call, ret, new_emails, idx, today, router_runs, calls>>

\* the tools the running agent has: the triage agent hands off to the
\* medical news agent and to the supplier outreach agent
RouterUpsert ==
    /\ pc \in {"yahoo_run", "outreach_new_run", "followup_run"}
    /\ CallUpsert(MaxRunCalls)

RouterAddSummary == pc = "yahoo_run" /\ CallAddSummary(MaxRunCalls)

RouterWeekly == pc = "reports_run" /\ CallWeekly(MaxRunCalls)

RouterBiweekly == pc = "reports_run" /\ CallBiweekly(MaxRunCalls)

NextMain ==
    \/ Tick
    \/ ProcessYahooEmails \/ YahooLoop \/ YahooRunEnd
    \/ ProcessKocTenders \/ ToolReadGmail \/ KocRunEnd
    \/ ManageSupplierOutreach \/ OutreachNewLoop \/ OutreachNewRunEnd
    \/ FollowUpLoop \/ FollowUpRunEnd
    \/ GenerateReports \/ ReportsRunEnd
    \/ RouterUpsert \/ RouterAddSummary \/ RouterWeekly \/ RouterBiweekly

SpecMain == Init /\ [][NextMain]_vars

----------------------------------------------------------------------------
(* What the claims are stated with, none of it taken from the definitions  *)
(* above                                                                   *)

\* this step is a call of the tool
Called(tool) == calls' = calls + 1 /\ call'.tool = tool

UPSERT == "update_outreach_contact_in_context"
WEEKLY == "generate_weekly_supplier_report"
BIWEEKLY == "generate_biweekly_medical_trend_report"
ADD_SUMMARY == "add_medical_summary_to_context"

\* the positions of the records with that email
WithEmail(list, email) == {i \in 1..Len(list) : list[i].email = email}

\* the message has x among its interpolated values
NamesIt(msg, x) == \E i \in 1..Len(msg) : msg[i] = x

\* the elements of a finite set of integers, ascending
RECURSIVE Ascending(_)
Ascending(S) ==
    IF S = {} THEN <<>>
    ELSE LET m == CHOOSE x \in S : \A y \in S : x <= y
         IN  <<m>> \o Ascending(S \ {m})

\* the lines of a text whose first segment is the given prefix
LinesWith(text, prefix) ==
    LET Starts(line) == Len(line) > 0 /\ line[1] = prefix
    IN  SelectSeq(text, Starts)

\* the position of the first line equal to the given one, 0 if none
LineAt(text, line) ==
    IF \E i \in 1..Len(text) : text[i] = line
    THEN CHOOSE i \in 1..Len(text) :
             text[i] = line /\ \A j \in 1..(i - 1) : text[j] # line
    ELSE 0

IsNoActivity(text) ==
    Len(text) = 3 /\ text[3] = <<"No supplier outreach activity this week.">>

RECURSIVE Flatten(_)
\* the concatenation of a sequence of sequences
Flatten(ss) == IF ss = <<>> THEN <<>> ELSE Head(ss) \o Flatten(Tail(ss))

----------------------------------------------------------------------------
(* C1: a call update_outreach_contact_in_context(name, email, status) on a *)
(* list with no record of that email appends exactly one record, with the  *)
(* given name, email and status, at the end; on a list with a record of    *)
(* that email it leaves the length, every other record, and that record's  *)
(* name, email and position as they were, and sets its status (and its     *)
(* last_contact_date).                                                     *)
C1_Post(old, new, name, email, status, t) ==
    IF WithEmail(old, email) = {}
    THEN /\ Len(new) = Len(old) + 1
         /\ SubSeq(new, 1, Len(old)) = old
         /\ new[Len(new)].name = name
         /\ new[Len(new)].email = email
         /\ new[Len(new)].status = status
    ELSE /\ Len(new) = Len(old)
         /\ \E i \in WithEmail(old, email) :
                /\ new[i].name = old[i].name
                /\ new[i].email = old[i].email
                /\ new[i].status = status
                /\ new[i].last_contact_date = t
                /\ \A j \in (1..Len(old)) \ {i} : new[j] = old[j]

C1_UpsertAppendsOrUpdates ==
    [][Called(UPSERT) =>
           C1_Post(outreach_list, outreach_list',
                   call'.name, call'.email, call'.status, now)]_vars

\* an update of the second of two contacts, under another name and at a
\* later time than it was added
C1_Witness ==
    /\ call.tool = UPSERT
    /\ Len(outreach_list) = 2
    /\ outreach_list[2].email = call.email
    /\ outreach_list[2].name # call.name
    /\ outreach_list[2].status = call.status
    /\ outreach_list[2].last_contact_date > outreach_list[1].last_contact_date
    /\ ret[1] = "Successfully updated contact "

(* C2: from the empty context, after any sequence of tool calls, no two    *)
(* records of outreach_list have the same email (compared exactly, case    *)
(* included).                                                              *)
C2_OneRecordPerEmail ==
    \A i, j \in 1..Len(outreach_list) :
        i # j => outreach_list[i].email # outreach_list[j].email

\* two contacts whose emails differ in case only, the second one updated
C2_Witness ==
    /\ Len(outreach_list) >= 2
    /\ outreach_list[1].email = "contact@innovatemed.com"
    /\ outreach_list[2].email = "Contact@innovatemed.com"
    /\ call.tool = UPSERT
    /\ call.email = "Contact@innovatemed.com"
    /\ ret[1] = "Successfully updated contact "

(* C3: every call of generate_weekly_supplier_report, on an empty contact  *)
(* list or not, appends exactly one entry to weekly_report, and that entry *)
(* is the text the call returns.                                           *)
C3_WeeklyAppendsOne ==
    [][Called(WEEKLY) => weekly_report' = Append(weekly_report, ret')]_vars

\* two calls in a row on the same contacts: two entries, the same text twice
C3_Witness ==
    /\ call.tool = WEEKLY
    /\ Len(weekly_report) = 2
    /\ weekly_report[1] = weekly_report[2]
    /\ outreach_list # <<>>

(* C4: on N >= 1 contacts the counts generate_weekly_supplier_report makes *)
(* for its Summary section add up to N, and the section has one line per   *)
(* status present, in the order in which the statuses are first seen in    *)
(* outreach_list, each with the number of contacts of that status.         *)
RECURSIVE SumValues(_)
SumValues(d) == IF d = <<>> THEN 0 ELSE Head(d).value + SumValues(Tail(d))

\* the positions at which a status is seen for the first time, ascending
FirstSeen(list) ==
    Ascending({i \in 1..Len(list) :
                   \A j \in 1..(i - 1) : list[j].status # list[i].status})

HowMany(list, status) == Cardinality({i \in 1..Len(list) : list[i].status = status})

C4_Summary(list) ==
    [k \in 1..Len(FirstSeen(list)) |->
        LET st == list[FirstSeen(list)[k]].status
        IN  <<"  - ", Humanize(st), ": ", ToString(HowMany(list, st))>>]

C4_SummaryCounts ==
    [][Called(WEEKLY) /\ outreach_list # <<>> =>
           /\ SumValues(StatusCounts(outreach_list)) = Len(outreach_list)
           /\ LinesWith(ret', "  - ") = C4_Summary(outreach_list)
           /\ LineAt(ret', <<"Summary:">>) = 2 + Len(outreach_list) + 2]_vars

\* a report on three contacts, the first and the third of one status
C4_Witness ==
    /\ call.tool = WEEKLY
    /\ Len(outreach_list) = 3
    /\ outreach_list[1].status = outreach_list[3].status
    /\ outreach_list[1].status # outreach_list[2].status
    /\ Len(LinesWith(ret, "  - ")) = 2
    /\ LinesWith(ret, "  - ")[1][4] = "2"

(* C5: generate_biweekly_medical_trend_report includes a summary exactly   *)
(* when its date is not more than 14 days before the time of the call: one *)
(* dated exactly 14 days before is in the report, one dated any earlier is *)
(* not.                                                                    *)
C5_InWindow(ms, t) == {i \in 1..Len(ms) : t - ms[i].date <= WindowDays * TicksPerDay}

\* how often the item line of (subject, summary) stands in the text
C5_Shown(text, subject, summary) ==
    Cardinality({i \in 1..Len(text) : text[i] = <<"  * ", subject, ": ", summary>>})

C5_FourteenDayWindow ==
    [][Called(BIWEEKLY) =>
           LET ms == medical_summaries
               inw == C5_InWindow(ms, now)
           IN  /\ \A subject \in Subjects, summary \in Summaries :
                      C5_Shown(ret', subject, summary) =
                          Cardinality({i \in inw :
                                          /\ ms[i].source_email_subject = subject
                                          /\ ms[i].summary = summary})
               /\ Len(LinesWith(ret', "  * ")) = Cardinality(inw)
               /\ (inw = {}) <=> (Len(ret') = 3 /\ ret'[3] = NoSummariesLine)]_vars

\* two reports: the first made exactly 14 days after the first summary and
\* showing it, the second one tick later and showing only the second summary
C5_Witness ==
    /\ call.tool = BIWEEKLY
    /\ Len(bi_weekly_report) = 2
    /\ Len(medical_summaries) = 2
    /\ medical_summaries[1].date = 0
    /\ medical_summaries[1].source_email_subject = "Therapy X"
    /\ medical_summaries[2].source_email_subject = "Therapy Y"
    /\ now = WindowTicks + 1
    /\ bi_weekly_report[1][1][2] = DateStr(WindowTicks)
    /\ C5_Shown(bi_weekly_report[1], "Therapy X", "Shows promise.") = 1
    /\ C5_Shown(bi_weekly_report[2], "Therapy X", "Shows promise.") = 0
    /\ C5_Shown(bi_weekly_report[2], "Therapy Y", "Shows promise.") = 1

(* C6: the summaries in the window are grouped by their trend string,      *)
(* compared exactly (case included): the groups stand in the order in      *)
(* which their trend is first met, the items of a group in the order of    *)
(* insertion, and each group's heading gives the number of its items.      *)
C6_Group(ms, inw, first) ==
    LET members == Ascending({i \in inw : ms[i].trend = ms[first].trend})
    IN  << <<>>,
           <<"Trend: ", ms[first].trend, " -- ", ToString(Len(members)),
             " article(s)">> >>
        \o [k \in 1..Len(members) |->
               <<"  * ", ms[members[k]].source_email_subject, ": ",
                 ms[members[k]].summary>>]

C6_Body(ms, t) ==
    LET inw == C5_InWindow(ms, t)
        firsts == Ascending({i \in inw :
                      \A j \in inw : j < i => ms[j].trend # ms[i].trend})
    IN  Flatten([k \in 1..Len(firsts) |-> C6_Group(ms, inw, firsts[k])])

C6_GroupedByExactTrend ==
    [][Called(BIWEEKLY) /\ C5_InWindow(medical_summaries, now) # {} =>
           SubSeq(ret', 3, Len(ret')) = C6_Body(medical_summaries, now)]_vars

\* three summaries in the window, the first and the third of one trend and
\* the second of a trend that differs from it in case only
C6_Witness ==
    /\ call.tool = BIWEEKLY
    /\ Len(medical_summaries) = 3
    /\ medical_summaries[1].trend = "Gene Therapy"
    /\ medical_summaries[2].trend = "gene therapy"
    /\ medical_summaries[3].trend = "Gene Therapy"
    /\ medical_summaries[1].source_email_subject # medical_summaries[3].source_email_subject
    /\ Len(ret) = 9
    /\ ret[4] = <<"Trend: ", "Gene Therapy", " -- ", "2", " article(s)">>
    /\ ret[8] = <<"Trend: ", "gene therapy", " -- ", "1", " article(s)">>

(* C7, as the spec states it: every call of                               *)
(* update_outreach_contact_in_context, on the add path and on the update   *)
(* path, returns a string that names the contact and the status.           *)
C7_Original ==
    call.tool = UPSERT => NamesIt(ret, call.name) /\ NamesIt(ret, call.status)

(* C7, amended: every call returns a string that names the contact (the    *)
(* name passed to the call); on the update path the string also names the  *)
(* new status, on the add path it is "Successfully added new contact       *)
(* <name> to outreach list.", with no place for the status.                *)
C7_Amended ==
    [][Called(UPSERT) =>
           /\ NamesIt(ret', call'.name)
           /\ IF WithEmail(outreach_list, call'.email) # {}
              THEN NamesIt(ret', call'.status)
              ELSE ret' = <<"Successfully added new contact ", call'.name,
                            " to outreach list.">>]_vars

\* an update, answered with the name and the status
C7_Witness ==
    /\ call.tool = UPSERT
    /\ Len(outreach_list) = 2
    /\ ret = <<"Successfully updated contact ", call.name, " with status ",
               call.status, ".">>
    /\ outreach_list[1].email = call.email
    /\ outreach_list[1].name # call.name

(* C8: when read_yahoo_emails returns its failure value (no credentials,   *)
(* or an error while connecting or fetching), process_yahoo_emails calls   *)
(* the router not once and leaves the context as it was, and main() goes   *)
(* on through the tender check, the outreach management and the report     *)
(* generation, in that order, to its end.                                  *)
C8_Log ==
    << "--- Task: Processing Yahoo Emails ---",
       "Could not fetch emails",
       "--- Task: Processing KOC Tenders ---",
       "--- Task: KOC Tenders Complete ---",
       "--- Task: Managing Supplier Outreach ---",
       "--- Task: Supplier Outreach Complete ---",
       "--- Task: Generating Reports ---",
       "--- Task: Reports Complete ---",
       "--- Full Simulation Cycle Complete ---" >>

\* main() can take its next step
C8_Goes ==
    ENABLED (\/ ProcessKocTenders \/ KocRunEnd
             \/ ManageSupplierOutreach \/ OutreachNewLoop \/ OutreachNewRunEnd
             \/ FollowUpLoop \/ FollowUpRunEnd
             \/ GenerateReports \/ ReportsRunEnd)

C8_MailboxFailureSkipsMail ==
    new_emails.type = "str" =>
        /\ router_runs.yahoo = 0
        /\ pc \notin {"main", "yahoo_loop", "yahoo_run"}
        /\ pc = "koc" =>
               /\ outreach_list = <<>> /\ medical_summaries = <<>>
               /\ weekly_report = <<>> /\ bi_weekly_report = <<>>
               /\ calls = 0
        /\ Len(log) <= Len(C8_Log) /\ log = SubSeq(C8_Log, 1, Len(log))
        /\ pc # "done" => C8_Goes
        /\ pc = "done" =>
               /\ log = C8_Log
               /\ router_runs.koc = 1
               /\ router_runs.reports = 1

\* the end of a run whose mailbox could not be reached, with a new supplier
\* written to and a weekly report made
C8_Witness ==
    /\ pc = "done"
    /\ new_emails = Str(<<"Error connecting to Yahoo IMAP or fetching emails: ", "e">>)
    /\ router_runs = [yahoo |-> 0, koc |-> 1, outreach |-> 2, reports |-> 1]
    /\ Len(outreach_list) = 1
    /\ Len(weekly_report) = 1

(* C9: generate_weekly_supplier_report returns the "No supplier outreach   *)
(* activity this week." message exactly when outreach_list is empty; a     *)
(* contact upsert leaves the list non-empty and nothing empties it again,  *)
(* so no weekly report after an upsert is that message.                    *)
C9_NoActivityIffEmpty ==
    [][/\ Called(WEEKLY) => (IsNoActivity(ret') <=> outreach_list = <<>>)
       /\ Called(UPSERT) => outreach_list' # <<>>
       /\ outreach_list # <<>> => outreach_list' # <<>>]_vars

\* a no-activity report, then an upsert, then, two weeks on, a report that
\* is not the no-activity message
C9_Witness ==
    /\ call.tool = WEEKLY
    /\ Len(weekly_report) = 2
    /\ IsNoActivity(weekly_report[1])
    /\ ~IsNoActivity(weekly_report[2])
    /\ Len(outreach_list) = 1
    /\ now - outreach_list[1].last_contact_date >= WindowTicks

(* C10: in a weekly report on a non-empty list the "Unresponsive           *)
(* Suppliers" section lists exactly the contacts whose status is now       *)
(* unresponsive, in the order of outreach_list, and is absent when there   *)
(* is none: a contact that was unresponsive and has been upserted to       *)
(* another status since is not listed.                                     *)
C10_Listed(list) ==
    LET at == Ascending({i \in 1..Len(list) : list[i].status = "unresponsive"})
    IN  [k \in 1..Len(at) |-> <<"  * ", list[at[k]].name, " (", list[at[k]].email, ")">>]

C10_UnresponsiveSection ==
    [][Called(WEEKLY) /\ outreach_list # <<>> =>
           LET k == LineAt(ret', <<"Unresponsive Suppliers:">>)
               listed == C10_Listed(outreach_list)
           IN  /\ LinesWith(ret', "  * ") = listed
               /\ IF listed = <<>> THEN k = 0
                  ELSE /\ k > 1
                       /\ ret'[k - 1] = <<>>
                       /\ SubSeq(ret', k + 1, Len(ret')) = listed]_vars

\* two reports: the first lists the contact as unresponsive, the second,
\* made after the contact went back to initial_sent, has no such section
C10_Witness ==
    /\ call.tool = WEEKLY
    /\ Len(weekly_report) = 2
    /\ Len(outreach_list) = 1
    /\ outreach_list[1].status = "initial_sent"
    /\ LinesWith(weekly_report[1], "  * ")
           = << <<"  * ", outreach_list[1].name, " (", outreach_list[1].email, ")">> >>
    /\ LineAt(weekly_report[2], <<"Unresponsive Suppliers:">>) = 0

(* C11: medical_summaries is append-only: add_medical_summary_to_context   *)
(* appends exactly one record, at the end, with the call's subject,        *)
(* summary and trend; every step leaves the records already there in       *)
(* place and as they were (the list before is a prefix of the list after), *)
(* and a report call, which filters by the 14-day window, removes nothing. *)
C11_AppendOnly ==
    [][/\ Len(medical_summaries') >= Len(medical_summaries)
       /\ SubSeq(medical_summaries', 1, Len(medical_summaries)) = medical_summaries
       /\ Called(ADD_SUMMARY) =>
              /\ Len(medical_summaries') = Len(medical_summaries) + 1
              /\ LET new == medical_summaries'[Len(medical_summaries')]
                 IN  /\ new.source_email_subject = call'.source_email_subject
                     /\ new.summary = call'.summary
                     /\ new.trend = call'.trend
                     /\ new.date = now
       /\ Called(BIWEEKLY) => medical_summaries' = medical_summaries]_vars

\* a report made a tick past the window of the first summary: the report
\* shows the second summary only, the context still holds both
C11_Witness ==
    /\ call.tool = BIWEEKLY
    /\ now = WindowTicks + 1
    /\ Len(medical_summaries) = 2
    /\ medical_summaries[1] =
           [source_email_subject |-> "Therapy X", summary |-> "Shows promise.",
            trend |-> "Gene Therapy", date |-> 0]
    /\ medical_summaries[2].source_email_subject = "Therapy Y"
    /\ medical_summaries[2].date = WindowTicks
    /\ C5_Shown(ret, "Therapy X", "Shows promise.") = 0
    /\ C5_Shown(ret, "Therapy Y", "Shows promise.") = 1

(* C12: each context tool changes its own part of the context only: an    *)
(* upsert leaves medical_summaries, weekly_report and bi_weekly_report as  *)
(* they were; adding a medical summary leaves outreach_list and the two    *)
(* report histories as they were; generate_weekly_supplier_report changes  *)
(* weekly_report only and generate_biweekly_medical_trend_report           *)
(* bi_weekly_report only, no contact and no summary record being touched.  *)
C12_Frame ==
    [][/\ Called(UPSERT) =>
              /\ medical_summaries' = medical_summaries
              /\ weekly_report' = weekly_report
              /\ bi_weekly_report' = bi_weekly_report
       /\ Called(ADD_SUMMARY) =>
              /\ outreach_list' = outreach_list
              /\ weekly_report' = weekly_report
              /\ bi_weekly_report' = bi_weekly_report
       /\ Called(WEEKLY) =>
              /\ outreach_list' = outreach_list
              /\ medical_summaries' = medical_summaries
              /\ bi_weekly_report' = bi_weekly_report
              /\ weekly_report' # weekly_report
       /\ Called(BIWEEKLY) =>
              /\ outreach_list' = outreach_list
              /\ medical_summaries' = medical_summaries
              /\ weekly_report' = weekly_report
              /\ bi_weekly_report' # bi_weekly_report]_vars

\* a weekly report made over a contact last written to a window ago, with a
\* summary in the context: the contact is still at initial_sent
C12_Witness ==
    /\ call.tool = WEEKLY
    /\ Len(outreach_list) = 1
    /\ outreach_list[1].status = "initial_sent"
    /\ now - outreach_list[1].last_contact_date >= WindowTicks
    /\ Len(medical_summaries) = 1
    /\ Len(weekly_report) = 1
    /\ bi_weekly_report = <<>>

====
